---- MODULE Spec2Model ----
(***************************************************************************)
(* Model of the universal document processor's post-processing pipeline    *)
(* (universal_doc_processor/utils/post_processor.py) and of the quality    *)
(* score (universal_doc_processor/models.py).                              *)
(*                                                                         *)
(* A Python str is a sequence of one-character strings; a list of lines    *)
(* is a sequence of such sequences.  Regular expressions are syntax trees  *)
(* matched as Python's re module matches them, so every pattern below is   *)
(* the pattern the source text denotes after Python's string-literal       *)
(* escaping: r"\\s" is the three-node pattern backslash, 's'; "\\n" is the *)
(* two-character string backslash, 'n'.                                    *)
(***************************************************************************)
EXTENDS Integers, Sequences, FiniteSets, TLC

VARIABLES
    pc,         \* position of the run of the specification in use
    profile,    \* the ProcessingProfile in use
    text,       \* the str handed to process_text
    lines,      \* process_text's local `lines`
    metrics,    \* process_text's local `metrics`
    final_text, \* process_text's returned text
    arg,        \* the list[str] handed to a stage function called on its own
    ret,        \* what that call returned
    ret2,       \* what the follow-up call on ret's lines returned
    qm,         \* a free-standing QualityMetrics record
    score,      \* what qm.calculate_score() returned, as a fraction
    doc,        \* process_document's locals and its ProcessingResult
    answer,     \* what a predicate called on its own returned
    batch_run   \* process_batch's locals: files, results and how it ended

vars ==
    <<pc, profile, text, lines, metrics, final_text, arg, ret, ret2, qm, score, doc, answer,
      batch_run>>

----------------------------------------------------------------------------
(* Characters *)

BS == "\\"
NL == "\n"
Whitespace == {" ", "\t", "\n", "\r", "\f"}
Digit == {"0", "1", "2", "3", "4", "5", "6", "7", "8", "9"}
Upper == {"A", "B", "C", "D", "E", "F", "G", "H", "I", "J", "K", "L", "M",
          "N", "O", "P", "Q", "R", "S", "T", "U", "V", "W", "X", "Y", "Z"}
Lower == {"a", "b", "c", "d", "e", "f", "g", "h", "i", "j", "k", "l", "m",
          "n", "o", "p", "q", "r", "s", "t", "u", "v", "w", "x", "y", "z"}
\* [a-zà-ÿ]: the accented letters the model's inputs use
LowerAccented == Lower \cup {"à", "é", "ñ", "ü", "ÿ"}
WordChar == Digit \cup Upper \cup LowerAccented \cup {"_"}

----------------------------------------------------------------------------
(* Python str methods *)

Max(S) == CHOOSE x \in S : \A y \in S : y <= x
Min(S) == CHOOSE x \in S : \A y \in S : x <= y

\* s[a-1:b] in Python terms: the characters at 1-based places a..b
Slice(s, a, b) == IF a > b THEN <<>> ELSE SubSeq(s, a, b)

StartsWith(s, w) == Len(w) <= Len(s) /\ SubSeq(s, 1, Len(w)) = w
EndsWith(s, w) == Len(w) <= Len(s) /\ SubSeq(s, Len(s) - Len(w) + 1, Len(s)) = w

\* str.rstrip(), str.lstrip(), str.strip()
RStrip(s) ==
    LET keep == {i \in 1..Len(s) : s[i] \notin Whitespace}
    IN  IF keep = {} THEN <<>> ELSE SubSeq(s, 1, Max(keep))
LStrip(s) ==
    LET keep == {i \in 1..Len(s) : s[i] \notin Whitespace}
    IN  IF keep = {} THEN <<>> ELSE SubSeq(s, Min(keep), Len(s))
Strip(s) == LStrip(RStrip(s))

\* sep.join(parts)
RECURSIVE Join(_, _)
Join(sep, parts) ==
    IF parts = <<>> THEN <<>>
    ELSE IF Len(parts) = 1 THEN parts[1]
    ELSE parts[1] \o sep \o Join(sep, Tail(parts))

\* s.split(sep) for a non-empty sep: leftmost, non-overlapping occurrences
RECURSIVE SplitFrom(_, _, _, _)
SplitFrom(s, sep, start, i) ==
    IF i + Len(sep) - 1 > Len(s) THEN <<Slice(s, start, Len(s))>>
    ELSE IF SubSeq(s, i, i + Len(sep) - 1) = sep
         THEN <<Slice(s, start, i - 1)>> \o SplitFrom(s, sep, i + Len(sep), i + Len(sep))
         ELSE SplitFrom(s, sep, start, i + 1)
Split(s, sep) == SplitFrom(s, sep, 1, 1)

\* len(s.split()): the number of maximal runs of non-whitespace characters
WordCount(s) ==
    Cardinality({i \in 1..Len(s) :
        s[i] \notin Whitespace /\ (i = 1 \/ s[i - 1] \in Whitespace)})

\* c in s
Contains(s, c) == \E i \in 1..Len(s) : s[i] = c

----------------------------------------------------------------------------
(* Python re: patterns as syntax trees *)

Chr(c) == [t |-> "set", cs |-> {c}]
Cls(S) == [t |-> "set", cs |-> S]
Dot == [t |-> "dot"]
Bol == [t |-> "bol"]
Eol == [t |-> "eol"]
WordB == [t |-> "wordb"]
Star(r) == [t |-> "star", r |-> r]
Cat(rs) == [t |-> "cat", rs |-> rs]
Alt(rs) == [t |-> "alt", rs |-> rs]
Plus(r) == Cat(<<r, Star(r)>>)
Opt(r) == Alt(<<r, Cat(<<>>)>>)
Lit(w) == Cat([i \in 1..Len(w) |-> Chr(w[i])])
\* a pattern re.compile rejects
Malformed == [t |-> "malformed"]

\* The places where a match of r that starts at place i of s can end
\* (one past its last character).
RECURSIVE Ends(_, _, _)
RECURSIVE EndsCat(_, _, _, _)
RECURSIVE EndsStar(_, _, _, _)
Ends(r, s, i) ==
    CASE r.t = "set" -> IF i <= Len(s) /\ s[i] \in r.cs THEN {i + 1} ELSE {}
      [] r.t = "dot" -> IF i <= Len(s) /\ s[i] # NL THEN {i + 1} ELSE {}
      [] r.t = "bol" -> IF i = 1 THEN {i} ELSE {}
      [] r.t = "eol" -> IF i = Len(s) + 1 \/ (i = Len(s) /\ s[i] = NL) THEN {i} ELSE {}
      [] r.t = "wordb" ->
            IF (i > 1 /\ s[i - 1] \in WordChar) # (i <= Len(s) /\ s[i] \in WordChar)
            THEN {i} ELSE {}
      [] r.t = "cat" -> EndsCat(r.rs, 1, s, {i})
      [] r.t = "alt" -> UNION {Ends(r.rs[k], s, i) : k \in 1..Len(r.rs)}
      [] r.t = "star" -> EndsStar(r.r, s, {i}, {i})
EndsCat(rs, k, s, P) ==
    IF k > Len(rs) \/ P = {} THEN P
    ELSE EndsCat(rs, k + 1, s, UNION {Ends(rs[k], s, p) : p \in P})
EndsStar(r, s, seen, frontier) ==
    LET new == (UNION {Ends(r, s, p) : p \in frontier}) \ seen
    IN  IF new = {} THEN seen ELSE EndsStar(r, s, seen \cup new, new)

\* bool(re.match(r, s)) and bool(re.search(r, s)) for a pattern that compiles
ReMatch(r, s) == Ends(r, s, 1) # {}
ReSearch(r, s) == \E i \in 1..(Len(s) + 1) : Ends(r, s, i) # {}

\* re.sub(r, repl, s) for a pattern without alternatives whose repeats are
\* greedy and that matches no empty string: the match Python takes at a
\* place is the longest one there.
RECURSIVE ReSubFrom(_, _, _, _)
ReSubFrom(r, repl, s, i) ==
    IF i > Len(s) THEN <<>>
    ELSE LET e == Ends(r, s, i) \ {i}
         IN  IF e # {} THEN repl \o ReSubFrom(r, repl, s, Max(e))
             ELSE <<s[i]>> \o ReSubFrom(r, repl, s, i + 1)
ReSub(r, repl, s) == ReSubFrom(r, repl, s, 1)

----------------------------------------------------------------------------
(* Words the patterns and the inputs are made of *)

wAbstract == <<"A", "b", "s", "t", "r", "a", "c", "t">>
wIntroduction == <<"I", "n", "t", "r", "o", "d", "u", "c", "t", "i", "o", "n">>
wMethods == <<"M", "e", "t", "h", "o", "d", "s">>
wResults == <<"R", "e", "s", "u", "l", "t", "s">>
wDiscussion == <<"D", "i", "s", "c", "u", "s", "s", "i", "o", "n">>
wConclusion == <<"C", "o", "n", "c", "l", "u", "s", "i", "o", "n">>
wReferences == <<"R", "e", "f", "e", "r", "e", "n", "c", "e", "s">>
wFigure == <<"F", "i", "g", "u", "r", "e">>
wTable == <<"T", "a", "b", "l", "e">>
wExercise == <<"E", "x", "e", "r", "c", "i", "s", "e">>
wExample == <<"E", "x", "a", "m", "p", "l", "e", ":">>
wCopyright == <<"C", "o", "p", "y", "r", "i", "g", "h", "t">>
wDialogue == <<"D", "i", "a", "l", "o", "g", "u", "e">>
wVocabulary == <<"V", "o", "c", "a", "b", "u", "l", "a", "r", "y">>
wGrammar == <<"G", "r", "a", "m", "m", "a", "r">>
wReview == <<"R", "e", "v", "i", "e", "w">>

----------------------------------------------------------------------------
(* The patterns of post_processor.py, as Python reads the source text *)

\* r"^#+\\s": '#' once or more, a backslash, 's'
reMarkdownHeader == Cat(<<Bol, Plus(Chr("#")), Chr(BS), Chr("s")>>)
\* r"^\\*\\*[A-Z]": backslashes, backslashes, a capital
reBoldSection == Cat(<<Bol, Star(Chr(BS)), Star(Chr(BS)), Cls(Upper)>>)
\* r"^---+$"
reHorizontalRule == Cat(<<Bol, Chr("-"), Chr("-"), Plus(Chr("-")), Eol>>)
\* r"^\\|": a leading backslash, or else the empty pattern
reTableRow == Alt(<<Cat(<<Bol, Chr(BS)>>), Cat(<<>>)>>)
\* r"^\\d+\\.\\s": backslash, 'd' once or more, backslash, any character, backslash, 's'
reNumberedList == Cat(<<Bol, Chr(BS), Plus(Chr("d")), Chr(BS), Dot, Chr(BS), Chr("s")>>)
\* r"^-\\s"
reBulletDash == Cat(<<Bol, Chr("-"), Chr(BS), Chr("s")>>)
\* r"^\\*\\s": backslashes, a backslash, 's'
reBulletStar == Cat(<<Bol, Star(Chr(BS)), Chr(BS), Chr("s")>>)
\* r"^[A-Z][A-Z\\s]+:": the class holds the capitals, the backslash and 's'
reSpeakerLabel == Cat(<<Bol, Cls(Upper), Plus(Cls(Upper \cup {BS, "s"})), Chr(":")>>)
\* r"^Exercise\\s+\\d+"
reExercise == Cat(<<Bol, Lit(wExercise), Chr(BS), Plus(Chr("s")), Chr(BS), Plus(Chr("d"))>>)
\* r"^\\*\\*Exercise\\s+\\d+"
reBoldExercise ==
    Cat(<<Bol, Star(Chr(BS)), Star(Chr(BS)), Lit(wExercise),
          Chr(BS), Plus(Chr("s")), Chr(BS), Plus(Chr("d"))>>)
\* r"^Example:"
reExample == Cat(<<Bol, Lit(wExample)>>)
\* r"^\\*\\*.*\\*\\*$"
reFullBold ==
    Cat(<<Bol, Star(Chr(BS)), Star(Chr(BS)), Star(Dot), Star(Chr(BS)), Star(Chr(BS)), Eol>>)
\* r"^Figure\\s+\\d+"
reFigure == Cat(<<Bol, Lit(wFigure), Chr(BS), Plus(Chr("s")), Chr(BS), Plus(Chr("d"))>>)
\* r"^Table\\s+\\d+"
reTable == Cat(<<Bol, Lit(wTable), Chr(BS), Plus(Chr("s")), Chr(BS), Plus(Chr("d"))>>)
\* r"^Abstract\\s*$"
reAbstract == Cat(<<Bol, Lit(wAbstract), Chr(BS), Star(Chr("s")), Eol>>)
\* r"^References\\s*$"
reReferences == Cat(<<Bol, Lit(wReferences), Chr(BS), Star(Chr("s")), Eol>>)

special_patterns ==
    <<reMarkdownHeader, reBoldSection, reHorizontalRule, reTableRow,
      reNumberedList, reBulletDash, reBulletStar, reSpeakerLabel, reExercise,
      reBoldExercise, reExample, reFullBold, reFigure, reTable, reAbstract,
      reReferences>>

\* r"^[A-Z]"
reStartsUpper == Cat(<<Bol, Cls(Upper)>>)
\* r"^[a-zà-ÿ]"
reStartsLower == Cat(<<Bol, Cls(LowerAccented)>>)
\* r"[.!?:;]$"
reTerminalPunct == Cat(<<Cls({".", "!", "?", ":", ";"}), Eol>>)
\* r"[.!?]\\s*$": a terminator, a backslash, any number of 's'
reSentenceEnd == Cat(<<Cls({".", "!", "?"}), Chr(BS), Star(Chr("s")), Eol>>)
\* r"^(Abstract|Introduction|Methods|Results|Discussion|Conclusion|References|Figure|Table|Exercise)"
reNewSection ==
    Cat(<<Bol, Alt(<<Lit(wAbstract), Lit(wIntroduction), Lit(wMethods), Lit(wResults),
                     Lit(wDiscussion), Lit(wConclusion), Lit(wReferences), Lit(wFigure),
                     Lit(wTable), Lit(wExercise)>>)>>)
\* r"\d{4}"
reYear == Cat(<<Cls(Digit), Cls(Digit), Cls(Digit), Cls(Digit)>>)
\* r"\bet\s+al\."
reEtAl ==
    Cat(<<WordB, Chr("e"), Chr("t"), Plus(Cls(Whitespace)), Chr("a"), Chr("l"), Chr(".")>>)
\* r"\\s+": a backslash, 's' once or more
reSpaces == Cat(<<Chr(BS), Plus(Chr("s"))>>)
\* r"([a-z])- ([a-z])"
reBrokenWord == Cat(<<Cls(Lower), Chr("-"), Chr(" "), Cls(Lower)>>)
\* the replacement template r"\\1\\2": backslash, '1', backslash, '2'
replBrokenWord == <<BS, "1", BS, "2">>
\* the separator "\\n" of split and join: backslash, 'n'
LineSep == <<BS, "n">>

----------------------------------------------------------------------------
(* The patterns of the shipped profiles *)

\* r"^\d+\s*$"
patPageNumber == Cat(<<Bol, Plus(Cls(Digit)), Star(Cls(Whitespace)), Eol>>)
\* r"^\d{1,3}\s*$"
patShortPageNumber ==
    Cat(<<Bol, Cls(Digit), Opt(Cls(Digit)), Opt(Cls(Digit)), Star(Cls(Whitespace)), Eol>>)
\* r"^Copyright.*"
patCopyright == Cat(<<Bol, Lit(wCopyright), Star(Dot)>>)
\* r"^(Exercise|Dialogue|Vocabulary|Grammar|Review)"
patTextbookSection ==
    Cat(<<Bol, Alt(<<Lit(wExercise), Lit(wDialogue), Lit(wVocabulary), Lit(wGrammar),
                     Lit(wReview)>>)>>)

----------------------------------------------------------------------------
(* QualityMetrics and ProcessingProfile (models.py) *)

\* QualityMetrics(): every counter at its default
QualityMetrics ==
    [paragraphs_merged |-> 0, headers_removed |-> 0, formatting_fixes |-> 0,
     lines_processed |-> 0, tables_detected |-> 0, figures_detected |-> 0,
     references_detected |-> 0, word_count |-> 0]

\* ProcessingProfile(...): the fields the processor and the post-processor
\* read, batch_size and min_quality_score at their defaults.  The model
\* declares list[str] fields and no validator, so construction accepts every
\* list of pattern strings.
ProcessingProfile(merging, headers, tables, figures, refs, hpats, spats) ==
    [batch_size |-> 5,
     enable_paragraph_merging |-> merging, enable_header_removal |-> headers,
     enable_table_detection |-> tables, enable_figure_detection |-> figures,
     enable_reference_formatting |-> refs,
     min_quality_score |-> 75,
     header_patterns |-> hpats, section_patterns |-> spats]

\* ProcessingResult(success=..., output_path=..., metrics=..., errors=...);
\* output_path is "None" or the path written
ProcessingResult(success, output_path, m, errors) ==
    [success |-> success, output_path |-> output_path, metrics |-> m, errors |-> errors]

\* The pattern strings a profile may carry, as the profile files write them
\* (academic_paper.py, language_textbook.py), and one that is no pattern.
srcPageNumber == "^\\d+\\s*$"
srcShortPageNumber == "^\\d{1,3}\\s*$"
srcCopyright == "^Copyright.*"
srcTextbookSection == "^(Exercise|Dialogue|Vocabulary|Grammar|Review)"
srcMalformed == "("

\* re's compilation of a profile's pattern string
ReCompile(src) ==
    CASE src = srcPageNumber -> patPageNumber
      [] src = srcShortPageNumber -> patShortPageNumber
      [] src = srcCopyright -> patCopyright
      [] src = srcTextbookSection -> patTextbookSection
      [] OTHER -> Malformed

\* re.match(pattern, s) raises re.error when the pattern does not compile
Compiles(src) == ReCompile(src) # Malformed

----------------------------------------------------------------------------
(* UniversalPostProcessor (post_processor.py) *)

\* MatchHeaderPatterns without the break: every matching pattern is counted
RECURSIVE MatchHeaderPatterns_NoBreak(_, _)
MatchHeaderPatterns_NoBreak(patterns, line) ==
    IF patterns = <<>> THEN [is_header |-> FALSE, removed |-> 0, raised |-> FALSE]
    ELSE IF ~Compiles(Head(patterns))
         THEN [is_header |-> FALSE, removed |-> 0, raised |-> TRUE]
    ELSE LET rest == MatchHeaderPatterns_NoBreak(Tail(patterns), line)
         IN  IF ReMatch(ReCompile(Head(patterns)), Strip(line))
             THEN [is_header |-> TRUE, removed |-> rest.removed + 1, raised |-> rest.raised]
             ELSE rest

\* The inner loop of _remove_headers over the patterns, for one line:
\* whether the line is a header, what is added to headers_removed, and whether
\* re.match raised before the loop ended.
RECURSIVE MatchHeaderPatterns(_, _)
MatchHeaderPatterns(patterns, line) ==
    IF patterns = <<>> THEN [is_header |-> FALSE, removed |-> 0, raised |-> FALSE]
    ELSE IF ~Compiles(Head(patterns))
         THEN [is_header |-> FALSE, removed |-> 0, raised |-> TRUE]
    ELSE IF ReMatch(ReCompile(Head(patterns)), Strip(line))
         THEN [is_header |-> TRUE, removed |-> 1, raised |-> FALSE]
    ELSE MatchHeaderPatterns(Tail(patterns), line)

RECURSIVE RemoveHeadersFrom(_, _, _, _, _)
RemoveHeadersFrom(ls, patterns, k, cleaned_lines, headers_removed) ==
    IF k > Len(ls)
    THEN [lines |-> cleaned_lines, count |-> headers_removed, raised |-> FALSE]
    ELSE LET m == MatchHeaderPatterns(patterns, ls[k])
         IN  IF m.raised
             THEN [lines |-> cleaned_lines, count |-> headers_removed, raised |-> TRUE]
             ELSE RemoveHeadersFrom(ls, patterns, k + 1,
                      IF m.is_header THEN cleaned_lines ELSE Append(cleaned_lines, ls[k]),
                      headers_removed + m.removed)

\* _remove_headers(lines, patterns)
RemoveHeaders(ls, patterns) == RemoveHeadersFrom(ls, patterns, 1, <<>>, 0)

\* The loop of _is_special_line over profile.section_patterns:
\* "match", "none", or "raised" when re.match raised first.
RECURSIVE MatchSectionPatterns(_, _)
MatchSectionPatterns(patterns, line) ==
    IF patterns = <<>> THEN "none"
    ELSE IF ~Compiles(Head(patterns)) THEN "raised"
    ELSE IF ReMatch(ReCompile(Head(patterns)), Strip(line)) THEN "match"
    ELSE MatchSectionPatterns(Tail(patterns), line)

\* any(re.match(pattern, line.strip()) for pattern in special_patterns)
MatchesSpecialPattern(line) ==
    \E k \in 1..Len(special_patterns) : ReMatch(special_patterns[k], Strip(line))

\* _is_special_line(line, profile), when it returns
IsSpecialLine(line, prof) ==
    \/ MatchSectionPatterns(prof.section_patterns, line) = "match"
    \/ MatchesSpecialPattern(line)

\* _is_special_line(line, profile) raises re.error
IsSpecialLineRaises(line, prof) ==
    MatchSectionPatterns(prof.section_patterns, line) = "raised"

\* _ends_sentence(line)
EndsSentence(line) ==
    LET l == RStrip(line)
    IN  ReSearch(reSentenceEnd, l) \/ EndsWith(l, <<":">>)

\* _looks_like_new_section(line)
LooksLikeNewSection(line) == ReMatch(reNewSection, line)

\* _should_merge_with_previous(prev_line, current_line)
ShouldMergeWithPrevious(prev_line, current_line) ==
    IF EndsSentence(prev_line) THEN FALSE
    ELSE IF ReMatch(reStartsUpper, current_line) /\ EndsWith(RStrip(prev_line), <<".">>)
         THEN FALSE
    ELSE IF EndsWith(RStrip(prev_line), <<"-">>) THEN TRUE
    ELSE IF ReMatch(reStartsLower, current_line) THEN TRUE
    ELSE /\ ~ReSearch(reTerminalPunct, RStrip(prev_line))
         /\ ~LooksLikeNewSection(current_line)

\* _fix_split_formatting(prev_line, current_line); "" when nothing is split
FixSplitFormatting(prev_line, current_line) ==
    LET p == RStrip(prev_line)
    IN  IF EndsWith(p, <<"*", "*">>) /\ StartsWith(current_line, <<"*", "*">>)
        THEN Slice(p, 1, Len(p) - 2) \o Slice(current_line, 3, Len(current_line))
        ELSE IF /\ EndsWith(p, <<"*">>)
                /\ StartsWith(current_line, <<"*">>)
                /\ ~EndsWith(p, <<" ", "*">>)
        THEN Slice(p, 1, Len(p) - 1) \o Slice(current_line, 2, Len(current_line))
        ELSE <<>>

Last(s) == s[Len(s)]

\* merged_lines.append(" ".join(current_paragraph)) when the buffer holds something
Flush(merged_lines, current_paragraph) ==
    IF current_paragraph # <<>>
    THEN Append(merged_lines, Join(<<" ">>, current_paragraph))
    ELSE merged_lines

\* MergeStep without the `continue` that ends the special-line branch: the
\* line is emitted and then also enters the paragraph buffer
MergeStep_NoContinue(st, raw, prof) ==
    LET line == RStrip(raw)
        cp == st.current_paragraph
    IN  IF line = <<>>
        THEN [st EXCEPT !.merged_lines = Append(Flush(st.merged_lines, cp), <<>>),
                        !.current_paragraph = <<>>]
        ELSE IF IsSpecialLineRaises(line, prof)
        THEN [st EXCEPT !.raised = TRUE]
        ELSE IF IsSpecialLine(line, prof)
        THEN [st EXCEPT !.merged_lines = Append(Flush(st.merged_lines, cp), line),
                        !.current_paragraph = <<line>>]
        ELSE IF cp # <<>> /\ ShouldMergeWithPrevious(Last(cp), line)
        THEN LET merged_line == FixSplitFormatting(Last(cp), line)
             IN  [st EXCEPT !.current_paragraph =
                                IF merged_line # <<>>
                                THEN [cp EXCEPT ![Len(cp)] = merged_line]
                                ELSE Append(cp, line),
                            !.paragraphs_merged = @ + 1]
        ELSE IF cp # <<>> /\ EndsSentence(Last(cp))
        THEN [st EXCEPT !.merged_lines = Flush(st.merged_lines, cp),
                        !.current_paragraph = <<line>>]
        ELSE [st EXCEPT !.current_paragraph = Append(cp, line)]

\* One pass of the loop body of _merge_paragraphs.
MergeStep(st, raw, prof) ==
    LET line == RStrip(raw)
        cp == st.current_paragraph
    IN  IF line = <<>>
        THEN [st EXCEPT !.merged_lines = Append(Flush(st.merged_lines, cp), <<>>),
                        !.current_paragraph = <<>>]
        ELSE IF IsSpecialLineRaises(line, prof)
        THEN [st EXCEPT !.raised = TRUE]
        ELSE IF IsSpecialLine(line, prof)
        THEN [st EXCEPT !.merged_lines = Append(Flush(st.merged_lines, cp), line),
                        !.current_paragraph = <<>>]
        ELSE IF cp # <<>> /\ ShouldMergeWithPrevious(Last(cp), line)
        THEN LET merged_line == FixSplitFormatting(Last(cp), line)
             IN  [st EXCEPT !.current_paragraph =
                                IF merged_line # <<>>
                                THEN [cp EXCEPT ![Len(cp)] = merged_line]
                                ELSE Append(cp, line),
                            !.paragraphs_merged = @ + 1]
        ELSE IF cp # <<>> /\ EndsSentence(Last(cp))
        THEN [st EXCEPT !.merged_lines = Flush(st.merged_lines, cp),
                        !.current_paragraph = <<line>>]
        ELSE [st EXCEPT !.current_paragraph = Append(cp, line)]

RECURSIVE MergeLoop(_, _, _, _)
MergeLoop(st, ls, k, prof) ==
    IF k > Len(ls) \/ st.raised THEN st
    ELSE MergeLoop(MergeStep(st, ls[k], prof), ls, k + 1, prof)

\* _merge_paragraphs(lines, profile)
MergeParagraphs(ls, prof) ==
    LET st == MergeLoop([merged_lines |-> <<>>, current_paragraph |-> <<>>,
                         paragraphs_merged |-> 0, raised |-> FALSE], ls, 1, prof)
    IN  [lines |-> IF st.raised THEN st.merged_lines
                   ELSE Flush(st.merged_lines, st.current_paragraph),
         count |-> st.paragraphs_merged, raised |-> st.raised]

\* the test of _detect_tables: "|" in line and len(line.split("|")) >= 3
IsTableLine(line) ==
    Contains(line, "|") /\ Len(Split(line, <<"|">>)) >= 3

\* DetectTablesFrom without the else branch that leaves the table
RECURSIVE DetectTablesFrom_NoReset(_, _, _, _)
DetectTablesFrom_NoReset(ls, k, tables_detected, in_table) ==
    IF k > Len(ls) THEN tables_detected
    ELSE IF IsTableLine(ls[k]) /\ ~in_table
         THEN DetectTablesFrom_NoReset(ls, k + 1, tables_detected + 1, TRUE)
         ELSE DetectTablesFrom_NoReset(ls, k + 1, tables_detected, in_table)

RECURSIVE DetectTablesFrom(_, _, _, _)
DetectTablesFrom(ls, k, tables_detected, in_table) ==
    IF k > Len(ls) THEN tables_detected
    ELSE IF IsTableLine(ls[k])
         THEN IF ~in_table
              THEN DetectTablesFrom(ls, k + 1, tables_detected + 1, TRUE)
              ELSE DetectTablesFrom(ls, k + 1, tables_detected, in_table)
         ELSE DetectTablesFrom(ls, k + 1, tables_detected, FALSE)

\* _detect_tables(lines)
DetectTables(ls) ==
    [lines |-> ls, count |-> DetectTablesFrom(ls, 1, 0, FALSE), raised |-> FALSE]

\* _detect_figures(lines)
DetectFigures(ls) ==
    [lines |-> ls,
     count |-> Cardinality({k \in 1..Len(ls) : ReMatch(reFigure, Strip(ls[k]))}),
     raised |-> FALSE]

RECURSIVE FormatReferencesFrom(_, _, _, _)
FormatReferencesFrom(ls, k, refs_detected, in_references) ==
    IF k > Len(ls) THEN refs_detected
    ELSE IF ReMatch(reReferences, Strip(ls[k]))
         THEN FormatReferencesFrom(ls, k + 1, refs_detected, TRUE)
    ELSE IF /\ in_references
            /\ Strip(ls[k]) # <<>>
            /\ (ReSearch(reYear, ls[k]) \/ ReSearch(reEtAl, ls[k]))
         THEN FormatReferencesFrom(ls, k + 1, refs_detected + 1, in_references)
    ELSE FormatReferencesFrom(ls, k + 1, refs_detected, in_references)

\* _format_references(lines, _profile)
FormatReferences(ls) ==
    [lines |-> ls, count |-> FormatReferencesFrom(ls, 1, 0, FALSE), raised |-> FALSE]

\* the three rewrites _apply_formatting_fixes makes of one line
FixLine(line) ==
    Strip(ReSub(reBrokenWord, replBrokenWord, ReSub(reSpaces, <<" ">>, line)))

\* ApplyFormattingFixes counting every rewrite that changed a line instead of
\* every line that changed
ApplyFormattingFixes_PerRewrite(ls) ==
    LET spaced(k) == ReSub(reSpaces, <<" ">>, ls[k])
        joined(k) == ReSub(reBrokenWord, replBrokenWord, spaced(k))
    IN  [lines |-> [k \in 1..Len(ls) |-> FixLine(ls[k])],
         count |-> Cardinality({k \in 1..Len(ls) : spaced(k) # ls[k]})
                   + Cardinality({k \in 1..Len(ls) : joined(k) # spaced(k)})
                   + Cardinality({k \in 1..Len(ls) : Strip(joined(k)) # joined(k)}),
         raised |-> FALSE]

\* _apply_formatting_fixes(lines, _profile)
ApplyFormattingFixes(ls) ==
    [lines |-> [k \in 1..Len(ls) |-> FixLine(ls[k])],
     count |-> Cardinality({k \in 1..Len(ls) : FixLine(ls[k]) # ls[k]}),
     raised |-> FALSE]

\* CalculateScore without the early return for lines_processed == 0
CalculateScore_NoZeroGuard(m) ==
    LET den == IF m.lines_processed >= 1 THEN m.lines_processed ELSE 1
        raw == (den - m.paragraphs_merged) * 60 + m.formatting_fixes * 20 + 20 * den
        low == IF raw >= 0 THEN raw ELSE 0
    IN  [num |-> IF low <= 100 * den THEN low ELSE 100 * den, den |-> den]

\* QualityMetrics.calculate_score(), as the fraction num/den of its float result
CalculateScore(m) ==
    IF m.lines_processed = 0 THEN [num |-> 0, den |-> 1]
    ELSE LET den == IF m.lines_processed >= 1 THEN m.lines_processed ELSE 1
             \* (merge_efficiency * 60) + (formatting_ratio * 20) + 20, times den
             raw == (den - m.paragraphs_merged) * 60 + m.formatting_fixes * 20 + 20 * den
             low == IF raw >= 0 THEN raw ELSE 0
         IN  [num |-> IF low <= 100 * den THEN low ELSE 100 * den, den |-> den]

----------------------------------------------------------------------------
(* Inputs *)

MaxPieces == 2
MaxLines == 3
MaxPatterns == 2
MaxCount == 5

\* every sequence over S of length at most n
RECURSIVE SeqsUpTo(_, _)
SeqsUpTo(S, n) ==
    IF n = 0 THEN {<<>>}
    ELSE LET shorter == SeqsUpTo(S, n - 1)
         IN  shorter \cup {Append(q, x) : q \in {r \in shorter : Len(r) = n - 1}, x \in S}

RECURSIVE Concat(_)
Concat(parts) == IF parts = <<>> THEN <<>> ELSE Head(parts) \o Concat(Tail(parts))

sPageOne == <<"1">>
sTableRow == <<"a", "|", "b", "|", "c">>
sBrokenWord == <<"m", "-", " ", "p">>
sTheCat == <<"T", "h", "e", " ", "c", "a", "t">>
sSatOn == <<"s", "a", "t", " ", "o", "n">>
sTheMat == <<"t", "h", "e", " ", "m", "a", "t", ".">>
sSmith == <<"S", "m", "i", "t", "h", ",", " ", "2", "0", "2", "0", ".">>
sExam == <<"e", "x", "a", "m", "-">>
sPleText == <<"p", "l", "e", " ", "t", "e", "x", "t">>
sHelloWor == <<"H", "e", "l", "l", "o", " ", "*", "*", "w", "o", "r">>
sLdThere == <<"l", "d", "*", "*", " ", "t", "h", "e", "r", "e">>
sHelloWorld == <<"H", "e", "l", "l", "o", " ", "*", "*", "w", "o", "r", "l", "d", "*", "*", " ", "t", "h", "e", "r", "e">>
sTheCatSatOnTheMat == <<"T", "h", "e", " ", "c", "a", "t", " ", "s", "a", "t", " ", "o", "n", " ", "t", "h", "e", " ", "m", "a", "t", ".">>

\* the eight lines of the end-to-end scenario, joined by line breaks
ScenarioLines == <<sPageOne, <<>>, sTheCat, sSatOn, sTheMat, <<>>, wReferences, sSmith>>
ScenarioText == Join(<<NL>>, ScenarioLines)
\* the same eight lines joined by the separator process_text splits on
ScenarioTextSep == Join(LineSep, ScenarioLines)
\* a references header as _format_references knows it, and an entry
ReferencesText == wReferences \o <<BS>> \o LineSep \o sSmith
\* a figure caption as _detect_figures knows it, after a table row
sFigureCaption == wFigure \o <<BS, "s", BS, "d">>
FigureText == sTableRow \o LineSep \o sFigureCaption
\* a page number and a line with a broken word
HeaderAndFixText == sPageOne \o LineSep \o sBrokenWord

TextPieces == {sPageOne, sTableRow, sBrokenWord, <<" ">>, LineSep, <<NL>>}
Texts ==
    {Concat(ps) : ps \in SeqsUpTo(TextPieces, MaxPieces)}
        \cup {ScenarioText, ScenarioTextSep, ReferencesText, FigureText, HeaderAndFixText}

\* the pattern lists of the profiles process_text is run with
PatternChoices ==
    {<<<<>>, <<>>>>,
     <<<<srcPageNumber>>, <<>>>>,
     <<<<srcPageNumber>>, <<srcTextbookSection>>>>,
     <<<<srcPageNumber, srcMalformed>>, <<>>>>,
     <<<<>>, <<srcMalformed>>>>}

NoProfile == ProcessingProfile(TRUE, TRUE, TRUE, TRUE, TRUE, <<>>, <<>>)
NoResult == [lines |-> <<>>, count |-> 0, raised |-> FALSE]
NoScore == [num |-> 0, den |-> 1]
\* process_document before it has done anything
NoDocument ==
    [image_paths |-> <<>>, submitted |-> <<>>, batch_results |-> <<>>,
     combined_text |-> <<>>, output_written |-> FALSE, exception |-> "none",
     result |-> ProcessingResult(FALSE, "None", QualityMetrics, <<>>)]
\* process_batch before it has found any file
NoBatch == [files |-> <<>>, results |-> <<>>, summary |-> "none", exception |-> "none"]

----------------------------------------------------------------------------
(* process_text, stage by stage *)

Stages ==
    <<"header_removal", "paragraph_merging", "table_detection", "figure_detection",
      "reference_formatting", "formatting_fixes", "join">>

StageIndex(stage) ==
    IF \E k \in 1..Len(Stages) : Stages[k] = stage
    THEN CHOOSE k \in 1..Len(Stages) : Stages[k] = stage
    ELSE IF stage \in {"returned", "raised"} THEN Len(Stages) + 1 ELSE 0

\* StageAfter with a retry: after the formatting fixes the stages run again
StageAfter_Retry(stage) ==
    IF stage = "formatting_fixes" THEN Stages[1] ELSE Stages[StageIndex(stage) + 1]

\* where control goes when a stage of process_text is through
StageAfter(stage) == Stages[StageIndex(stage) + 1]

Init ==
    /\ pc = "config"
    /\ profile = NoProfile
    /\ text = <<>>
    /\ lines = <<>>
    /\ metrics = QualityMetrics
    /\ final_text = <<>>
    /\ arg = <<>>
    /\ ret = NoResult
    /\ ret2 = NoResult
    /\ qm = QualityMetrics
    /\ score = NoScore
    /\ doc = NoDocument
    /\ answer = FALSE
    /\ batch_run = NoBatch

\* ProcessingProfile(...) with the given toggles and pattern lists
ConstructProfile ==
    /\ pc = "config"
    /\ \E merging, headers, tables, figures, refs \in BOOLEAN, pats \in PatternChoices :
          profile' = ProcessingProfile(merging, headers, tables, figures, refs,
                                       pats[1], pats[2])
    /\ pc' = "ready"
    /\ UNCHANGED <<text, lines, metrics, final_text, arg, ret, ret2, qm, score, doc, answer, batch_run>>

\* process_text is entered: metrics = QualityMetrics(), the split, lines_processed
SplitText ==
    /\ pc = "ready"
    /\ \E t \in Texts :
          /\ text' = t
          /\ lines' = Split(t, LineSep)
          /\ metrics' = [QualityMetrics EXCEPT !.lines_processed = Len(Split(t, LineSep))]
    /\ pc' = Stages[1]
    /\ final_text' = <<>>
    /\ UNCHANGED <<profile, arg, ret, ret2, qm, score, doc, answer, batch_run>>

\* RunStage storing the stage's count even when its toggle is off
RunStage_CountWhenDisabled(stage, enabled, result, field) ==
    /\ pc = stage
    /\ IF result.raised /\ enabled
       THEN /\ pc' = "raised"
            /\ UNCHANGED <<lines, metrics>>
       ELSE /\ pc' = StageAfter(stage)
            /\ lines' = IF enabled THEN result.lines ELSE lines
            /\ metrics' = [metrics EXCEPT ![field] = result.count]
    /\ UNCHANGED <<profile, text, final_text, arg, ret, ret2, qm, score, doc, answer, batch_run>>

\* One stage: skipped when its toggle is off; otherwise its result replaces
\* `lines` and its count is stored, or the exception it raised leaves process_text.
RunStage(stage, enabled, result, field) ==
    /\ pc = stage
    /\ IF ~enabled
       THEN /\ pc' = StageAfter(stage)
            /\ UNCHANGED <<lines, metrics>>
       ELSE IF result.raised
       THEN /\ pc' = "raised"
            /\ UNCHANGED <<lines, metrics>>
       ELSE /\ pc' = StageAfter(stage)
            /\ lines' = result.lines
            /\ metrics' = [metrics EXCEPT ![field] = result.count]
    /\ UNCHANGED <<profile, text, final_text, arg, ret, ret2, qm, score, doc, answer, batch_run>>

HeaderRemoval ==
    RunStage("header_removal", profile.enable_header_removal,
             RemoveHeaders(lines, profile.header_patterns), "headers_removed")

ParagraphMerging ==
    RunStage("paragraph_merging", profile.enable_paragraph_merging,
             MergeParagraphs(lines, profile), "paragraphs_merged")

TableDetection ==
    RunStage("table_detection", profile.enable_table_detection,
             DetectTables(lines), "tables_detected")

FigureDetection ==
    RunStage("figure_detection", profile.enable_figure_detection,
             DetectFigures(lines), "figures_detected")

ReferenceFormatting ==
    RunStage("reference_formatting", profile.enable_reference_formatting,
             FormatReferences(lines), "references_detected")

FormattingFixes ==
    RunStage("formatting_fixes", TRUE, ApplyFormattingFixes(lines), "formatting_fixes")

\* the join, the word count and the return
ReturnText ==
    /\ pc = "join"
    /\ final_text' = Join(LineSep, lines)
    /\ metrics' = [metrics EXCEPT !.word_count = WordCount(Join(LineSep, lines))]
    /\ pc' = "returned"
    /\ UNCHANGED <<profile, text, lines, arg, ret, ret2, qm, score, doc, answer, batch_run>>

Next ==
    \/ ConstructProfile
    \/ SplitText
    \/ HeaderRemoval
    \/ ParagraphMerging
    \/ TableDetection
    \/ FigureDetection
    \/ ReferenceFormatting
    \/ FormattingFixes
    \/ ReturnText

Spec == Init /\ [][Next]_vars

----------------------------------------------------------------------------
(* The stage functions called on their own *)

sPadded == <<" ", "1", "2", " ">>
sYear == <<"1", "2", "3", "4">>
sOneA == <<"1", " ", "a">>
sBoldTail == <<"a", "*", "*">>
sBoldHead == <<"*", "*", "b">>
sPipes == <<"|", "|">>
sCell == <<"a", "|", "b">>

HeaderLines == {<<>>, sPageOne, sPadded, sYear, wCopyright, sTheCat, sOneA}
HeaderPatternLists == SeqsUpTo({srcPageNumber, srcShortPageNumber, srcCopyright}, MaxPatterns)
sHeadingPadded == <<"#", " ", "I", "n", "t", "r", "o", " ">>
MergeLines ==
    {<<>>, sTheCat, sSatOn, sExam, sPleText, sHelloWor, sLdThere, sBoldTail, sBoldHead,
     sHeadingPadded}
SectionPatternLists == {<<>>, <<srcTextbookSection>>}
TableLines == {<<>>, <<"a">>, sCell, sTableRow, sPipes}

InitStages ==
    /\ pc = "idle"
    /\ profile = NoProfile
    /\ text = <<>>
    /\ lines = <<>>
    /\ metrics = QualityMetrics
    /\ final_text = <<>>
    /\ arg = <<>>
    /\ ret = NoResult
    /\ ret2 = NoResult
    /\ qm = QualityMetrics
    /\ score = NoScore
    /\ doc = NoDocument
    /\ answer = FALSE
    /\ batch_run = NoBatch

\* _remove_headers(ls, patterns)
CallRemoveHeaders ==
    /\ pc = "idle"
    /\ \E ls \in SeqsUpTo(HeaderLines, MaxLines), patterns \in HeaderPatternLists :
          /\ arg' = ls
          /\ profile' = [profile EXCEPT !.header_patterns = patterns]
          /\ ret' = RemoveHeaders(ls, patterns)
    /\ pc' = "remove_headers"
    /\ UNCHANGED <<text, lines, metrics, final_text, ret2, qm, score, doc, answer, batch_run>>

\* _merge_paragraphs(ls, profile)
CallMergeParagraphs ==
    /\ pc = "idle"
    /\ \E ls \in SeqsUpTo(MergeLines, MaxLines), patterns \in SectionPatternLists :
          /\ arg' = ls
          /\ profile' = [profile EXCEPT !.section_patterns = patterns]
          /\ ret' = MergeParagraphs(ls, [profile EXCEPT !.section_patterns = patterns])
    /\ pc' = "merge_paragraphs"
    /\ UNCHANGED <<text, lines, metrics, final_text, ret2, qm, score, doc, answer, batch_run>>

\* _merge_paragraphs on the lines _merge_paragraphs returned, same profile
CallMergeParagraphsAgain ==
    /\ pc = "merge_paragraphs"
    /\ ~ret.raised
    /\ ret2' = MergeParagraphs(ret.lines, profile)
    /\ pc' = "merge_paragraphs_again"
    /\ UNCHANGED <<profile, text, lines, metrics, final_text, arg, ret, qm, score, doc, answer, batch_run>>

\* _apply_formatting_fixes on the lines _merge_paragraphs returned
CallFormattingFixesOnMerged ==
    /\ pc = "merge_paragraphs"
    /\ ~ret.raised
    /\ ret2' = ApplyFormattingFixes(ret.lines)
    /\ pc' = "merge_then_fixes"
    /\ UNCHANGED <<profile, text, lines, metrics, final_text, arg, ret, qm, score, doc, answer, batch_run>>

\* _detect_tables(ls)
CallDetectTables ==
    /\ pc = "idle"
    /\ \E ls \in SeqsUpTo(TableLines, MaxLines) :
          /\ arg' = ls
          /\ ret' = DetectTables(ls)
    /\ pc' = "detect_tables"
    /\ UNCHANGED <<profile, text, lines, metrics, final_text, ret2, qm, score, doc, answer, batch_run>>

sTheMatSemicolon == <<"t", "h", "e", " ", "m", "a", "t", ";">>
sToList == <<"t", "o", " ", "l", "i", "s", "t", ":">>
sEtude == <<"é", "t", "u", "d", "e">>
sFigureOne == <<"F", "i", "g", "u", "r", "e", " ", "1">>
sQuoted == <<"(", "a", ")">>
PreviousLines == {sTheCat, sTheMat, sTheMatSemicolon, sToList, sExam, sTheMat \o <<BS>>}
CurrentLines == {sSatOn, sSmith, sEtude, sFigureOne, sQuoted}

\* _should_merge_with_previous(prev_line, current_line)
CallShouldMergeWithPrevious ==
    /\ pc = "idle"
    /\ \E prev_line \in PreviousLines, current_line \in CurrentLines :
          /\ arg' = <<prev_line, current_line>>
          /\ answer' = ShouldMergeWithPrevious(prev_line, current_line)
    /\ pc' = "should_merge"
    /\ UNCHANGED <<profile, text, lines, metrics, final_text, ret, ret2, qm, score, doc, batch_run>>

sHeading == <<"#", " ", "I", "n", "t", "r", "o">>
sRule == <<"-", "-", "-">>
sRow == <<"|", "a", "|">>
sNumbered == <<"1", ".", " ", "a">>
sBullet == <<"-", " ", "a">>
sSpeaker == <<"A", "N", "N", "E", ":", " ", "h", "i">>
sExerciseOne == <<"E", "x", "e", "r", "c", "i", "s", "e", " ", "1">>
sBoldLine == <<"*", "*", "N", "o", "t", "e", "*", "*">>
sTableTwo == <<"T", "a", "b", "l", "e", " ", "2">>
sDialogueOne == <<"D", "i", "a", "l", "o", "g", "u", "e", " ", "1">>
SpecialLineCandidates ==
    {sTheCat, sSatOn, sTheMat, sHeading, sRule, sRow, sNumbered, sBullet, sSpeaker,
     sExerciseOne, sBoldLine, sFigureOne, sTableTwo, sDialogueOne, wAbstract, wReferences,
     wReferences \o <<BS>>}

\* _is_special_line(line, profile)
CallIsSpecialLine ==
    /\ pc = "idle"
    /\ \E line \in SpecialLineCandidates, patterns \in SectionPatternLists :
          /\ arg' = <<line>>
          /\ profile' = [profile EXCEPT !.section_patterns = patterns]
          /\ answer' = IsSpecialLine(line, [profile EXCEPT !.section_patterns = patterns])
    /\ pc' = "is_special_line"
    /\ UNCHANGED <<text, lines, metrics, final_text, ret, ret2, qm, score, doc, batch_run>>

sDoeEtAl == <<"D", "o", "e", " ", "e", "t", " ", "a", "l", ".">>
sEtAl == <<"e", "t", " ", "a", "l", ".">>
ReferenceLines == {<<>>, <<" ">>, wReferences, wReferences \o <<BS>>, sSmith, sDoeEtAl, sTheCat}

\* _format_references(ls, profile)
CallFormatReferences ==
    /\ pc = "idle"
    /\ \E ls \in SeqsUpTo(ReferenceLines, MaxLines) :
          /\ arg' = ls
          /\ ret' = FormatReferences(ls)
    /\ pc' = "format_references"
    /\ UNCHANGED <<profile, text, lines, metrics, final_text, ret2, qm, score, doc, answer, batch_run>>

sTwoSpaces == <<"a", " ", " ", "b">>
sExamPle == <<"e", "x", "a", "m", "-", " ", "p", "l", "e">>
sEscapedSpaces == <<"a", BS, "s", "s", "b">>
FixLines == {<<>>, sTheCat, sPadded, sTwoSpaces, sExamPle, sEscapedSpaces}

\* _apply_formatting_fixes(ls, profile)
CallApplyFormattingFixes ==
    /\ pc = "idle"
    /\ \E ls \in SeqsUpTo(FixLines, MaxLines) :
          /\ arg' = ls
          /\ ret' = ApplyFormattingFixes(ls)
    /\ pc' = "formatting_fixes_alone"
    /\ UNCHANGED <<profile, text, lines, metrics, final_text, ret2, qm, score, doc, answer, batch_run>>

NextStages ==
    \/ CallApplyFormattingFixes
    \/ CallFormatReferences
    \/ CallIsSpecialLine
    \/ CallShouldMergeWithPrevious
    \/ CallRemoveHeaders
    \/ CallMergeParagraphs
    \/ CallMergeParagraphsAgain
    \/ CallFormattingFixesOnMerged
    \/ CallDetectTables

SpecStages == InitStages /\ [][NextStages]_vars

----------------------------------------------------------------------------
(* calculate_score called on a record *)

\* QualityMetrics(paragraphs_merged=m, formatting_fixes=f, lines_processed=n)
ConstructQualityMetrics ==
    /\ pc = "idle"
    /\ \E m, f, n \in 0..MaxCount :
          qm' = [QualityMetrics EXCEPT !.paragraphs_merged = m,
                                       !.formatting_fixes = f,
                                       !.lines_processed = n]
    /\ pc' = "metrics"
    /\ UNCHANGED <<profile, text, lines, metrics, final_text, arg, ret, ret2, score, doc, answer, batch_run>>

\* qm.calculate_score()
CallCalculateScore ==
    /\ pc = "metrics"
    /\ score' = CalculateScore(qm)
    /\ pc' = "scored"
    /\ UNCHANGED <<profile, text, lines, metrics, final_text, arg, ret, ret2, qm, doc, answer, batch_run>>

NextScore == ConstructQualityMetrics \/ CallCalculateScore

SpecScore == InitStages /\ [][NextScore]_vars

----------------------------------------------------------------------------
(* UniversalDocumentProcessor.process_document (processor.py) *)

\* the separator "\\n\\n" of _combine_batch_results
BatchSep == LineSep \o LineSep

\* The loop of _process_images_in_batches from offset i: responses[k] is what
\* the model answers for batch k: [kind |-> "text", text |-> ...] (the text may
\* be empty) or [kind |-> "error"] when the call raises.  The loop state is
\* batch_results together with the batch_images handed to the model so far.
RECURSIVE ProcessImagesFrom(_, _, _, _, _)
ProcessImagesFrom(image_paths, batch_size, responses, i, loop) ==
    IF i >= Len(image_paths) THEN loop
    ELSE LET batch_images == Slice(image_paths, i + 1, Min({i + batch_size, Len(image_paths)}))
             batch_num == (i \div batch_size) + 1
             response == responses[batch_num]
             batch_results == loop.batch_results
             appended ==
                 IF response.kind = "error"
                 THEN Append(batch_results,
                             [batch_num |-> batch_num, error |-> "error", pages |-> batch_images])
                 ELSE IF response.text # <<>>
                 THEN Append(batch_results,
                             [batch_num |-> batch_num, pages |-> batch_images,
                              text |-> response.text, page_count |-> Len(batch_images)])
                 ELSE batch_results
         IN  ProcessImagesFrom(image_paths, batch_size, responses, i + batch_size,
                               [batch_results |-> appended,
                                submitted |-> Append(loop.submitted, batch_images)])

\* the whole loop, from offset 0 with nothing recorded
ProcessImagesLoop(image_paths, batch_size, responses) ==
    ProcessImagesFrom(image_paths, batch_size, responses, 0,
                      [batch_results |-> <<>>, submitted |-> <<>>])

\* _process_images_in_batches(image_paths, profile), for batch_size >= 1
ProcessImagesInBatches(image_paths, batch_size, responses) ==
    ProcessImagesLoop(image_paths, batch_size, responses).batch_results

\* the batch_images of each iteration, in the order they went to the model
SubmittedBatches(image_paths, batch_size, responses) ==
    ProcessImagesLoop(image_paths, batch_size, responses).submitted

\* the texts of the batches that have one
RECURSIVE BatchTexts(_)
BatchTexts(batch_results) ==
    IF batch_results = <<>> THEN <<>>
    ELSE LET batch == Head(batch_results)
         IN  IF "text" \in DOMAIN batch /\ batch.text # <<>>
             THEN <<batch.text>> \o BatchTexts(Tail(batch_results))
             ELSE BatchTexts(Tail(batch_results))

\* _combine_batch_results(batch_results)
CombineBatchResults(batch_results) == Join(BatchSep, BatchTexts(batch_results))

\* QualityPasses with a strict comparison
QualityPasses_Strict(quality_score, min_quality_score) ==
    quality_score.num > min_quality_score * quality_score.den

\* quality_score >= request.profile.min_quality_score
QualityPasses(quality_score, min_quality_score) ==
    quality_score.num >= min_quality_score * quality_score.den

MaxPages == 2
MaxBatchSize == 2
MaxImages == 3

\* what recognition may answer for a batch
Responses ==
    {[kind |-> "text", text |-> t] : t \in {<<>>, sTableRow, sBrokenWord}}
        \cup {[kind |-> "error"]}
\* the thresholds of the profiles (75 by default, 80 for academic papers) and
\* two stricter ones
Thresholds == {75, 80, 90, 100}
DocumentPatternChoices == {<<>>, <<srcPageNumber>>, <<srcMalformed>>}

\* _process_images_in_batches(image_paths, profile) called on its own, with a
\* batch_size >= 1; arg keeps what the model answers for each batch
CallProcessImagesInBatches ==
    /\ pc = "idle"
    /\ \E n \in 0..MaxImages, batch_size \in 1..MaxBatchSize :
          \E responses \in [1..n -> Responses] :
              LET image_paths == [k \in 1..n |-> k]
              IN  /\ profile' = [NoProfile EXCEPT !.batch_size = batch_size]
                  /\ arg' = responses
                  /\ doc' = [NoDocument EXCEPT
                               !.image_paths = image_paths,
                               !.submitted =
                                   SubmittedBatches(image_paths, batch_size, responses),
                               !.batch_results =
                                   ProcessImagesInBatches(image_paths, batch_size, responses)]
    /\ pc' = "batches"
    /\ UNCHANGED <<text, lines, metrics, final_text, ret, ret2, qm, score, answer, batch_run>>

\* _combine_batch_results(batch_results) on what the loop returned
CallCombineBatchResults ==
    /\ pc = "batches"
    /\ doc' = [doc EXCEPT !.combined_text = CombineBatchResults(doc.batch_results)]
    /\ pc' = "combined"
    /\ UNCHANGED <<profile, text, lines, metrics, final_text, arg, ret, ret2, qm, score, answer, batch_run>>

NextBatches == CallProcessImagesInBatches \/ CallCombineBatchResults

SpecBatches == InitStages /\ [][NextBatches]_vars

InitDocument ==
    /\ pc = "request"
    /\ profile = NoProfile
    /\ text = <<>>
    /\ lines = <<>>
    /\ metrics = QualityMetrics
    /\ final_text = <<>>
    /\ arg = <<>>
    /\ ret = NoResult
    /\ ret2 = NoResult
    /\ qm = QualityMetrics
    /\ score = NoScore
    /\ doc = NoDocument
    /\ answer = FALSE
    /\ batch_run = NoBatch

\* the except clause of process_document: a failure result carrying the error
Failed(d, errors, exception) ==
    [d EXCEPT !.exception = exception,
              !.result = ProcessingResult(FALSE, "None", QualityMetrics, errors)]

\* process_document is entered with a request; the model is initialized
ReceiveRequest ==
    /\ pc = "request"
    /\ \E enabled \in BOOLEAN, hpats \in DocumentPatternChoices,
          threshold \in Thresholds, batch_size \in 0..MaxBatchSize :
          profile' = [ProcessingProfile(enabled, enabled, enabled, enabled, enabled,
                                        <<>>, <<>>)
                          EXCEPT !.header_patterns = hpats,
                                       !.min_quality_score = threshold,
                                       !.batch_size = batch_size]
    /\ pc' = "convert"
    /\ UNCHANGED <<text, lines, metrics, final_text, arg, ret, ret2, qm, score, doc, answer, batch_run>>

\* _convert_pdf_to_images: the page images, or [] when the conversion raised;
\* no image is the "Failed to convert" result
ConvertPdfToImages ==
    /\ pc = "convert"
    /\ \E n \in 0..MaxPages :
          IF n = 0
          THEN /\ doc' = [doc EXCEPT !.result = ProcessingResult(FALSE, "None",
                              QualityMetrics, <<"Failed to convert PDF to images">>)]
               /\ pc' = "doc_done"
          ELSE /\ doc' = [doc EXCEPT !.image_paths = [k \in 1..n |-> k]]
               /\ pc' = "recognize"
    /\ UNCHANGED <<profile, text, lines, metrics, final_text, arg, ret, ret2, qm, score, answer, batch_run>>

\* _process_images_in_batches and _combine_batch_results; range() raises
\* ValueError on batch_size 0, and no text is the "No text extracted" result
RecognizeAndCombine ==
    /\ pc = "recognize"
    /\ IF profile.batch_size = 0
       THEN /\ doc' = Failed(doc, <<"range() arg 3 must not be zero">>, "ValueError")
            /\ pc' = "doc_done"
       ELSE \E responses \in [1..Len(doc.image_paths) -> Responses] :
              LET batch_results ==
                      ProcessImagesInBatches(doc.image_paths, profile.batch_size, responses)
                  submitted ==
                      SubmittedBatches(doc.image_paths, profile.batch_size, responses)
                  combined_text == CombineBatchResults(batch_results)
              IN  IF combined_text = <<>>
                  THEN /\ doc' = [doc EXCEPT
                                    !.submitted = submitted,
                                    !.batch_results = batch_results,
                                    !.result = ProcessingResult(FALSE, "None",
                                        QualityMetrics, <<"No text extracted from document">>)]
                       /\ pc' = "doc_done"
                  ELSE /\ doc' = [doc EXCEPT !.submitted = submitted,
                                             !.batch_results = batch_results,
                                             !.combined_text = combined_text]
                       /\ pc' = "post_process"
    /\ UNCHANGED <<profile, text, lines, metrics, final_text, arg, ret, ret2, qm, score, answer, batch_run>>

\* self.post_processor.process_text(combined_text, request.profile) is
\* entered; its stages are the actions of process_text above.  The re.error
\* of a malformed pattern is none of the exceptions process_document catches:
\* "raised" leaves process_document as well.
PostProcess ==
    /\ pc = "post_process"
    /\ text' = doc.combined_text
    /\ lines' = Split(doc.combined_text, LineSep)
    /\ metrics' = [QualityMetrics EXCEPT
                      !.lines_processed = Len(Split(doc.combined_text, LineSep))]
    /\ pc' = Stages[1]
    /\ UNCHANGED <<profile, final_text, arg, ret, ret2, qm, score, doc, answer, batch_run>>

\* _save_results: both files written, or an OSError from writing the text or
\* from writing the metadata after it
SaveResults ==
    /\ pc = "returned"
    /\ \E outcome \in {"saved", "text_failed", "metadata_failed"} :
          IF outcome = "saved"
          THEN /\ doc' = [doc EXCEPT !.output_written = TRUE]
               /\ pc' = "quality"
          ELSE /\ doc' = [Failed(doc, <<"OSError">>, "OSError")
                             EXCEPT !.output_written = (outcome = "metadata_failed")]
               /\ pc' = "doc_done"
    /\ UNCHANGED <<profile, text, lines, metrics, final_text, arg, ret, ret2, qm, score, answer, batch_run>>

\* the quality check and the ProcessingResult of a run that got this far
CheckQuality ==
    /\ pc = "quality"
    /\ score' = CalculateScore(metrics)
    /\ doc' = [doc EXCEPT !.result =
                  ProcessingResult(QualityPasses(CalculateScore(metrics),
                                                 profile.min_quality_score),
                                   "output_path", metrics, <<>>)]
    /\ pc' = "doc_done"
    /\ UNCHANGED <<profile, text, lines, metrics, final_text, arg, ret, ret2, qm, answer, batch_run>>

NextDocument ==
    \/ ReceiveRequest
    \/ ConvertPdfToImages
    \/ RecognizeAndCombine
    \/ PostProcess
    \/ HeaderRemoval
    \/ ParagraphMerging
    \/ TableDetection
    \/ FigureDetection
    \/ ReferenceFormatting
    \/ FormattingFixes
    \/ ReturnText
    \/ SaveResults
    \/ CheckQuality

SpecDocument == InitDocument /\ [][NextDocument]_vars

----------------------------------------------------------------------------
(* process_batch *)

MaxFiles == 2

InitBatch ==
    /\ pc = "batch_request"
    /\ profile = NoProfile
    /\ text = <<>>
    /\ lines = <<>>
    /\ metrics = QualityMetrics
    /\ final_text = <<>>
    /\ arg = <<>>
    /\ ret = NoResult
    /\ ret2 = NoResult
    /\ qm = QualityMetrics
    /\ score = NoScore
    /\ doc = NoDocument
    /\ answer = FALSE
    /\ batch_run = NoBatch

\* process_batch is entered with a request: request.profile, and the files
\* the patterns find in request.input_directory, in the order found
DiscoverFiles ==
    /\ pc = "batch_request"
    /\ \E enabled \in BOOLEAN, hpats \in DocumentPatternChoices,
          threshold \in Thresholds, batch_size \in 0..MaxBatchSize :
          profile' = [ProcessingProfile(enabled, enabled, enabled, enabled, enabled,
                                        <<>>, <<>>)
                          EXCEPT !.header_patterns = hpats,
                                       !.min_quality_score = threshold,
                                       !.batch_size = batch_size]
    /\ \E n \in 0..MaxFiles : batch_run' = [NoBatch EXCEPT !.files = [k \in 1..n |-> k]]
    /\ pc' = "next_file"
    /\ UNCHANGED <<text, lines, metrics, final_text, arg, ret, ret2, qm, score, doc, answer>>

\* the next pdf_file of the loop: process_document is entered with a request
\* made of the file and request.profile
ProcessNextFile ==
    /\ pc = "next_file"
    /\ Len(batch_run.results) < Len(batch_run.files)
    /\ doc' = NoDocument
    /\ pc' = "convert"
    /\ UNCHANGED <<profile, text, lines, metrics, final_text, arg, ret, ret2, qm, score, answer,
                   batch_run>>

\* process_document returned its ProcessingResult, which carries the
\* input_path of its request: results.append(result).  The locals of the call
\* are gone with it.
AppendResult ==
    /\ pc = "doc_done"
    /\ LET pdf_file == batch_run.files[Len(batch_run.results) + 1]
       IN  batch_run' = [batch_run EXCEPT
                       !.results = Append(@, [input_path |-> pdf_file] @@ doc.result)]
    /\ text' = <<>>
    /\ lines' = <<>>
    /\ metrics' = QualityMetrics
    /\ final_text' = <<>>
    /\ score' = NoScore
    /\ doc' = NoDocument
    /\ pc' = "next_file"
    /\ UNCHANGED <<profile, arg, ret, ret2, qm, answer>>

\* successful = sum(1 for r in results if r.success)
RECURSIVE Successful(_)
Successful(results) ==
    IF results = <<>> THEN 0
    ELSE (IF Head(results).success THEN 1 ELSE 0) + Successful(Tail(results))

\* _display_batch_summary(results) after the loop, then return results: the
\* average and the rate divide by len(results), a ZeroDivisionError when
\* there is no result
DisplayBatchSummary ==
    /\ pc = "next_file"
    /\ Len(batch_run.results) = Len(batch_run.files)
    /\ IF Len(batch_run.results) = 0
       THEN /\ batch_run' = [batch_run EXCEPT !.exception = "ZeroDivisionError"]
            /\ pc' = "batch_raised"
       ELSE /\ batch_run' = [batch_run EXCEPT !.summary =
                            [total |-> Len(batch_run.results),
                             successful |-> Successful(batch_run.results)]]
            /\ pc' = "batch_returned"
    /\ UNCHANGED <<profile, text, lines, metrics, final_text, arg, ret, ret2, qm, score, doc,
                   answer>>

\* process_batch: the loop runs process_document for each file; an exception
\* that process_document lets through ("raised") leaves process_batch too
NextBatch ==
    \/ DiscoverFiles
    \/ ProcessNextFile
    \/ ConvertPdfToImages
    \/ RecognizeAndCombine
    \/ PostProcess
    \/ HeaderRemoval
    \/ ParagraphMerging
    \/ TableDetection
    \/ FigureDetection
    \/ ReferenceFormatting
    \/ FormattingFixes
    \/ ReturnText
    \/ SaveResults
    \/ CheckQuality
    \/ AppendResult
    \/ DisplayBatchSummary

SpecBatch == InitBatch /\ [][NextBatch]_vars

----------------------------------------------------------------------------
(* The claims *)

ScenarioProfile == ProcessingProfile(TRUE, TRUE, TRUE, TRUE, TRUE, <<srcPageNumber>>, <<>>)

\* the lines of a text, split on line breaks
TextLines(t) == Split(t, <<NL>>)

\* C1: with the page-number pattern as the only header pattern and every
\* toggle at its default, process_text on the eight-line scenario returns a
\* text without the page-number line and with the line "The cat sat on the
\* mat.", and reports headers_removed = 1, paragraphs_merged = 2 and
\* references_detected = 1.
C1_EndToEnd ==
    (pc = "returned" /\ text = ScenarioText /\ profile = ScenarioProfile) =>
        /\ \A k \in 1..Len(TextLines(final_text)) : TextLines(final_text)[k] # sPageOne
        /\ \E k \in 1..Len(TextLines(final_text)) :
              TextLines(final_text)[k] = sTheCatSatOnTheMat
        /\ metrics.headers_removed = 1
        /\ metrics.paragraphs_merged = 2
        /\ metrics.references_detected = 1

\* C2: once process_text has split the text, lines_processed is the number
\* of lines the original text has when split on line breaks, whatever the
\* later stages do to the line sequence.
C2_LinesProcessed ==
    pc \notin {"config", "ready"} => metrics.lines_processed = Len(TextLines(text))

\* C3: merging the lines that _merge_paragraphs returned, with the same
\* profile, returns as many lines and reports no merge.
C3_RemergeFixedPoint ==
    pc = "merge_paragraphs_again" =>
        /\ ~ret2.raised
        /\ Len(ret2.lines) = Len(ret.lines)
        /\ ret2.count = 0

\* a second merge has run on the result of merging two wrapped prose lines
C3_Witness ==
    /\ pc = "merge_paragraphs_again"
    /\ arg = <<sTheCat, sSatOn>>
    /\ Len(ret2.lines) = Len(ret.lines)

\* C4: the two lines "Hello **wor" and "ld** there" are merged into the one
\* line "Hello **world** there".
C4_SplitBoldRepair ==
    (pc = "merge_paragraphs" /\ arg = <<sHelloWor, sLdThere>>) =>
        ret.lines = <<sHelloWorld>>

\* a line that ends with a lowercase letter and a hyphen
EndsHyphenated(line) ==
    Len(line) >= 2 /\ line[Len(line)] = "-" /\ line[Len(line) - 1] \in Lower

\* C5: a line ending with a lowercase fragment and a hyphen, followed by a
\* line starting with a lowercase fragment, comes out of paragraph merging and
\* the formatting fixes as one line, the two fragments joined with nothing
\* between them ("exam-", "ple text" gives "example text").
C5_HyphenationRepair ==
    (/\ pc = "merge_then_fixes"
     /\ Len(arg) = 2
     /\ EndsHyphenated(arg[1])
     /\ arg[2] # <<>> /\ arg[2][1] \in Lower) =>
        ret2.lines = <<Slice(arg[1], 1, Len(arg[1]) - 1) \o arg[2]>>

\* a line with at least two '|', so that it splits into three segments or more
TableLike(line) == Cardinality({i \in 1..Len(line) : line[i] = "|"}) >= 2

\* C6: tables_detected is the number of maximal runs of consecutive
\* table-like lines, that is, of table-like lines that are first or follow a
\* line that is not table-like.
C6_TableRuns ==
    pc = "detect_tables" =>
        ret.count = Cardinality({k \in 1..Len(arg) :
                        TableLike(arg[k]) /\ (k = 1 \/ ~TableLike(arg[k - 1]))})

\* two table rows with a blank line between them were counted as two tables
C6_Witness ==
    /\ pc = "detect_tables"
    /\ arg = <<sTableRow, <<>>, sTableRow>>
    /\ ret.count = 2

\* C7: calculate_score returns a value in [0, 100]: 0 when lines_processed is
\* 0, and otherwise 60*(1 - merged/lines) + 20*(fixes/lines) + 20 cut to
\* [0, 100].  The score is the fraction score.num / score.den.
C7_ScoreRange ==
    pc = "scored" =>
        LET n == qm.lines_processed
            exact == 60 * (n - qm.paragraphs_merged) + 20 * qm.formatting_fixes + 20 * n
            cut == IF exact < 0 THEN 0 ELSE IF exact > 100 * n THEN 100 * n ELSE exact
        IN  /\ score.den > 0
            /\ 0 <= score.num /\ score.num <= 100 * score.den
            /\ n = 0 => score.num = 0
            /\ n > 0 => score.num * n = cut * score.den

\* a record with no lines and some fixes was scored
C7_Witness ==
    /\ pc = "scored"
    /\ qm.lines_processed = 0
    /\ qm.formatting_fixes > 0
    /\ score.num = 0

\* the trimmed line matches one of the patterns
MatchesAny(patterns, line) ==
    \E k \in 1..Len(patterns) : ReMatch(ReCompile(patterns[k]), Strip(line))

\* C8: _remove_headers returns, in order and unchanged, the lines whose
\* trimmed content matches none of the patterns, and headers_removed is the
\* number of lines dropped.
C8_HeaderFilter ==
    pc = "remove_headers" =>
        LET Kept(line) == ~MatchesAny(profile.header_patterns, line)
        IN  /\ ~ret.raised
            /\ ret.lines = SelectSeq(arg, Kept)
            /\ ret.count = Len(arg) - Len(ret.lines)

\* a line that two patterns of the list match was dropped and counted once
C8_Witness ==
    /\ pc = "remove_headers"
    /\ arg = <<sPageOne, sTheCat>>
    /\ profile.header_patterns = <<srcPageNumber, srcShortPageNumber>>
    /\ ret.lines = <<sTheCat>>
    /\ ret.count = 1

\* every pattern of the profile compiles
WellFormed(prof) ==
    /\ \A k \in 1..Len(prof.header_patterns) : Compiles(prof.header_patterns[k])
    /\ \A k \in 1..Len(prof.section_patterns) : Compiles(prof.section_patterns[k])

\* process_text is running or has ended
InProcessText == StageIndex(pc) > 0

\* C9: with a profile whose patterns are well formed, process_text raises
\* nothing, and each step it takes moves on to the next of its stages, the
\* last of which returns the text and the metrics: no stage runs twice.
C9_Totality ==
    /\ [](InProcessText /\ WellFormed(profile) =>
            /\ pc # "raised"
            /\ pc = "returned" => metrics.lines_processed >= 1)
    /\ [][InProcessText /\ WellFormed(profile) =>
            StageIndex(pc') = StageIndex(pc) + 1]_vars

\* process_text returned for the empty string under a profile with a pattern
C9_Witness ==
    /\ pc = "returned"
    /\ text = <<>>
    /\ profile.header_patterns = <<srcPageNumber>>
    /\ metrics.lines_processed = 1

\* C10: a malformed pattern is rejected when the profile is constructed, so
\* process_text never fails on one.
C10_RejectedAtConstruction == pc # "raised"

\* the three detector stages of process_text
DetectorStages == {"table_detection", "figure_detection", "reference_formatting"}

\* C11: the detectors only count.  No detector step changes the lines, so the
\* lines that reach the formatting fixes (and with them the final text) are the
\* same under the eight toggle combinations; and there each detector's counter
\* is 0 when it is disabled and what the detector counts on those lines when it
\* is enabled, whatever the other two toggles are.
C11_DetectorsReadOnly ==
    /\ [][(pc \in DetectorStages) => (lines' = lines)]_vars
    /\ [](pc \in {"formatting_fixes", "join", "returned"} =>
            /\ final_text = IF pc = "returned" THEN Join(LineSep, lines) ELSE <<>>
            /\ pc = "formatting_fixes" =>
                /\ metrics.tables_detected =
                      IF profile.enable_table_detection THEN DetectTables(lines).count ELSE 0
                /\ metrics.figures_detected =
                      IF profile.enable_figure_detection THEN DetectFigures(lines).count ELSE 0
                /\ metrics.references_detected =
                      IF profile.enable_reference_formatting
                      THEN FormatReferences(lines).count ELSE 0)

\* the detectors are through on a text with a table and a figure, the figure
\* detector disabled: the table is counted and the figure is not
C11_Witness ==
    /\ pc = "formatting_fixes"
    /\ text = FigureText
    /\ profile.enable_table_detection /\ ~profile.enable_figure_detection
    /\ metrics.tables_detected = 1
    /\ metrics.figures_detected = 0
    /\ DetectFigures(lines).count = 1

\* process_document got as far as the quality check: text was recognized and
\* nothing raised
CheckedQuality ==
    pc = "doc_done" /\ doc.combined_text # <<>> /\ doc.exception = "none"

\* C12: when text was recognized and nothing raised, process_document returns
\* success exactly when the score of the returned metrics reaches the
\* profile's min_quality_score; below it the result has success = false, no
\* error, the output path of the file it wrote and the metrics process_text
\* returned for the recognized text.
C12_QualityDecision ==
    CheckedQuality =>
        LET quality_score == CalculateScore(doc.result.metrics)
        IN  /\ doc.result.success <=>
                  (quality_score.num >= profile.min_quality_score * quality_score.den)
            /\ doc.result.errors = <<>>
            /\ doc.output_written /\ doc.result.output_path # "None"
            /\ text = doc.combined_text /\ doc.result.metrics = metrics

\* a document scored 80 under a threshold of 90 was reported as not successful
C12_Witness ==
    /\ CheckedQuality
    /\ profile.min_quality_score = 90
    /\ score = [num |-> 80, den |-> 1]
    /\ ~doc.result.success
    /\ doc.result.errors = <<>>

\* the last character of the right-trimmed line is one of the given ones
EndsWithOneOf(line, chars) ==
    RStrip(line) # <<>> /\ Last(RStrip(line)) \in chars

\* the line starts with one of the structural section keywords
StartsWithSectionKeyword(line) ==
    \E w \in {wAbstract, wIntroduction, wMethods, wResults, wDiscussion, wConclusion,
              wReferences, wFigure, wTable, wExercise} : StartsWith(line, w)

\* C13: _should_merge_with_previous(prev, cur) is decided in this order: no
\* when prev ends with '.', '!', '?' or ':'; no when cur starts with an
\* uppercase letter and prev ends with a period; yes when prev ends with a
\* hyphen; yes when cur starts with a lowercase letter, accented ones included;
\* and otherwise yes unless prev has no terminal punctuation and cur starts
\* with a section keyword.
C13_MergeDecision ==
    pc = "should_merge" =>
        LET prev == arg[1]
            cur == arg[2]
        IN  answer =
              IF EndsWithOneOf(prev, {".", "!", "?", ":"}) THEN FALSE
              ELSE IF cur[1] \in Upper /\ EndsWithOneOf(prev, {"."}) THEN FALSE
              ELSE IF EndsWithOneOf(prev, {"-"}) THEN TRUE
              ELSE IF cur[1] \in LowerAccented THEN TRUE
              ELSE ~(/\ ~EndsWithOneOf(prev, {".", "!", "?", ":", ";"})
                     /\ StartsWithSectionKeyword(cur))

\* The built-in kinds of special line: markdown header, bold section header,
\* horizontal rule, table row, numbered item, the two bullets, speaker label,
\* 'Exercise N', bold 'Exercise N', 'Example:', fully bold line, 'Figure N',
\* 'Table N', 'Abstract', 'References'.
BuiltInKinds ==
    LET ws == Cls(Whitespace)
        digits == Plus(Cls(Digit))
        bold == Lit(<<"*", "*">>)
    IN  <<Cat(<<Bol, Plus(Chr("#")), ws>>),
          Cat(<<Bol, bold, Cls(Upper)>>),
          Cat(<<Bol, Lit(<<"-", "-">>), Plus(Chr("-")), Eol>>),
          Cat(<<Bol, Chr("|")>>),
          Cat(<<Bol, digits, Chr("."), ws>>),
          Cat(<<Bol, Chr("-"), ws>>),
          Cat(<<Bol, Chr("*"), ws>>),
          Cat(<<Bol, Cls(Upper), Plus(Cls(Upper \cup Whitespace)), Chr(":")>>),
          Cat(<<Bol, Lit(wExercise), Plus(ws), digits>>),
          Cat(<<Bol, bold, Lit(wExercise), Plus(ws), digits>>),
          Cat(<<Bol, Lit(wExample), Chr(":")>>),
          Cat(<<Bol, bold, Star(Dot), bold, Eol>>),
          Cat(<<Bol, Lit(wFigure), Plus(ws), digits>>),
          Cat(<<Bol, Lit(wTable), Plus(ws), digits>>),
          Cat(<<Bol, Lit(wAbstract), Star(ws), Eol>>),
          Cat(<<Bol, Lit(wReferences), Star(ws), Eol>>)>>

\* C15: _is_special_line(line, profile) is true exactly when the trimmed line
\* matches, at its start, a section pattern of the profile or one of the
\* built-in kinds; an ordinary prose line is not special.
C15_SpecialLine ==
    pc = "is_special_line" =>
        answer = (\/ MatchesAny(profile.section_patterns, arg[1])
                  \/ \E k \in 1..Len(BuiltInKinds) : ReMatch(BuiltInKinds[k], Strip(arg[1])))

\* the input lines that went into output line j under the assignment f
Group(f, j) == {i \in DOMAIN f : f[i] = j}

\* the lines of arg at the places of G, in order
RECURSIVE PickedFrom(_, _, _)
PickedFrom(ls, G, k) ==
    IF k > Len(ls) THEN <<>>
    ELSE IF k \in G THEN <<RStrip(ls[k])>> \o PickedFrom(ls, G, k + 1)
    ELSE PickedFrom(ls, G, k + 1)

\* C16: _merge_paragraphs loses nothing and keeps the order: the input lines
\* can be assigned to the output lines, in order and onto all of them, so that
\* a blank line is alone in an empty output line, a special line is alone in
\* an output line equal to it, and every other output line is made of the
\* right-trimmed lines assigned to it, in order, joined by a space (or spliced
\* where a marker is split between two of them).
C16_LossFree ==
    (pc = "merge_paragraphs" /\ ~ret.raised) =>
        \E f \in [1..Len(arg) -> 1..Len(ret.lines)] :
            /\ \A i, k \in 1..Len(arg) : i <= k => f[i] <= f[k]
            /\ \A j \in 1..Len(ret.lines) : Group(f, j) # {}
            /\ \A i \in 1..Len(arg) :
                  IF RStrip(arg[i]) = <<>>
                  THEN Group(f, f[i]) = {i} /\ ret.lines[f[i]] = <<>>
                  ELSE IF IsSpecialLine(RStrip(arg[i]), profile)
                  THEN Group(f, f[i]) = {i} /\ ret.lines[f[i]] = arg[i]
                  ELSE LET picked == PickedFrom(arg, Group(f, f[i]), 1)
                       IN  \/ ret.lines[f[i]] = Join(<<" ">>, picked)
                           \/ \E k \in 1..(Len(picked) - 1) :
                                 FixSplitFormatting(picked[k], picked[k + 1]) # <<>>

\* w occurs in the line
HasSubstring(line, w) ==
    \E i \in 1..(Len(line) - Len(w) + 1) : SubSeq(line, i, i + Len(w) - 1) = w

\* four digits in a row occur in the line
HasYear(line) ==
    \E i \in 1..(Len(line) - 3) : \A k \in i..(i + 3) : line[k] \in Digit

\* C18: references_detected is the number of non-blank lines that come after
\* the first line whose trimmed content is 'References', are no such header
\* themselves, and hold four digits in a row or 'et al.'.
C18_ReferenceCount ==
    pc = "format_references" =>
        LET IsHeader(k) == Strip(arg[k]) = wReferences
        IN  ret.count = Cardinality({k \in 1..Len(arg) :
                            /\ \E h \in 1..(k - 1) : IsHeader(h)
                            /\ ~IsHeader(k)
                            /\ Strip(arg[k]) # <<>>
                            /\ (HasYear(arg[k]) \/ HasSubstring(arg[k], sEtAl))})

\* the line with every hyphen-space between two lowercase letters removed
RECURSIVE DropHyphenSpace(_, _)
DropHyphenSpace(line, i) ==
    IF i > Len(line) THEN <<>>
    ELSE IF /\ i + 3 <= Len(line)
            /\ line[i] \in Lower /\ line[i + 1] = "-" /\ line[i + 2] = " "
            /\ line[i + 3] \in Lower
         THEN <<line[i], line[i + 3]>> \o DropHyphenSpace(line, i + 4)
         ELSE <<line[i]>> \o DropHyphenSpace(line, i + 1)

\* a line in normal form: whitespace runs collapsed to one space, hyphen-spaces
\* between lowercase letters removed, trimmed
NormalForm(line) ==
    Strip(DropHyphenSpace(ReSub(Plus(Cls(Whitespace)), <<" ">>, line), 1))

\* C19: _apply_formatting_fixes returns as many lines, in order, each the
\* normal form of its input line, and formatting_fixes is the number of lines
\* that differ from their input.
C19_NormalForm ==
    pc = "formatting_fixes_alone" =>
        /\ Len(ret.lines) = Len(arg)
        /\ \A k \in 1..Len(arg) : ret.lines[k] = NormalForm(arg[k])
        /\ ret.count = Cardinality({k \in 1..Len(arg) : ret.lines[k] # arg[k]})

\* C20: the metrics process_text returns have no negative counter, and
\* headers_removed + paragraphs_merged and formatting_fixes are at most
\* lines_processed, so that the two ratios of the quality score are in [0, 1].
C20_CounterBounds ==
    pc = "returned" =>
        /\ \A field \in DOMAIN metrics : metrics[field] >= 0
        /\ metrics.headers_removed + metrics.paragraphs_merged <= metrics.lines_processed
        /\ metrics.formatting_fixes <= metrics.lines_processed

\* process_text returned for a two-line text whose first line was removed as
\* a header and whose second was fixed
C20_Witness ==
    /\ pc = "returned"
    /\ text = HeaderAndFixText
    /\ metrics.lines_processed = 2
    /\ metrics.headers_removed = 1
    /\ metrics.formatting_fixes = 1

\* the non-empty texts among the answers to batches k..n, in batch order
RECURSIVE AnsweredTexts(_, _, _)
AnsweredTexts(responses, k, n) ==
    IF k > n THEN <<>>
    ELSE IF responses[k].kind = "text" /\ responses[k].text # <<>>
         THEN <<responses[k].text>> \o AnsweredTexts(responses, k + 1, n)
         ELSE AnsweredTexts(responses, k + 1, n)

\* the batches partition the page images in page order, none empty and none
\* larger than batch_size, and a batch that raised has its "error" entry while
\* every later batch is still submitted and recorded
BatchesPartitionImages ==
    LET submitted == doc.submitted
        responses == arg
    IN  /\ Concat(submitted) = doc.image_paths
        /\ \A k \in 1..Len(submitted) :
              /\ Len(submitted[k]) >= 1
              /\ Len(submitted[k]) <= profile.batch_size
              /\ responses[k].kind = "error" =>
                    \E j \in 1..Len(doc.batch_results) :
                        /\ doc.batch_results[j].batch_num = k
                        /\ "error" \in DOMAIN doc.batch_results[j]
                        /\ doc.batch_results[j].pages = submitted[k]
              /\ (responses[k].kind = "text" /\ responses[k].text # <<>>) =>
                    \E j \in 1..Len(doc.batch_results) :
                        /\ doc.batch_results[j].batch_num = k
                        /\ "text" \in DOMAIN doc.batch_results[j]
                        /\ doc.batch_results[j].text = responses[k].text
                        /\ doc.batch_results[j].pages = submitted[k]

\* C21: for every image list and batch_size >= 1, _process_images_in_batches
\* submits every image in exactly one batch, the batches contiguous, in page
\* order and of at most batch_size images, and records a batch that raises
\* with an "error" entry without stopping the later batches; and
\* _combine_batch_results joins the non-empty batch texts, in batch order,
\* with a blank line (two line breaks) between them.
C21_BatchesAndCombine ==
    /\ (pc \in {"batches", "combined"}) => BatchesPartitionImages
    /\ (pc = "combined") =>
          doc.combined_text =
              Join(<<NL, NL>>, AnsweredTexts(arg, 1, Len(doc.submitted)))

\* C22: process_batch returns normally for every number of discovered files,
\* zero included, with exactly one ProcessingResult per file in discovery
\* order and the summary produced: no exception leaves it, whether from a
\* document that failed or from the summary, and what it returns has the
\* result of files[k] at position k.
C22_BatchReturnsOneResultPerFile ==
    /\ pc \notin {"batch_raised", "raised"}
    /\ (pc = "batch_returned") =>
          /\ Len(batch_run.results) = Len(batch_run.files)
          /\ \A k \in 1..Len(batch_run.files) :
                batch_run.results[k].input_path = batch_run.files[k]
          /\ batch_run.summary # "none"

====
